---- MODULE Spec2Model ----
(***************************************************************************)
(* Model of the Google Tasks MCP server: the startup sequence of           *)
(* TasksServer (credential load, token-refresh listener, gateway client,   *)
(* request handlers), the 'tokens' callback, and the request handlers      *)
(* (tool calls, resource reads, resource lists) with the calls they make   *)
(* on the Google Tasks gateway.                                            *)
(***************************************************************************)
EXTENDS Integers, Sequences, FiniteSets, TLC

(***************************************************************************)
(* JavaScript values.  A missing key and the value undefined are the same  *)
(* to every test the code makes (truthiness, spread, JSON.stringify).      *)
(***************************************************************************)
Undefined == "<undefined>"

\* JSON null, as the serializers emit it
Null == "<null>"

\* the booleans, where a field holds either a boolean or undefined
True == "<true>"

False == "<false>"

Truthy(v) == v \notin {Undefined, Null, "", False}

(***************************************************************************)
(* Bounds of the model.                                                    *)
(***************************************************************************)
\* longest sequence of 'tokens' notifications in one run
MaxRefresh == 2

(***************************************************************************)
(* Credentials: the keys the OAuth2 client keeps and the file stores.      *)
(***************************************************************************)
NoCredentials ==
    [access_token |-> Undefined, refresh_token |-> Undefined, expiry_date |-> Undefined]

\* process.env as read by setupAuth
Environments == [ACCESS_TOKEN : {Undefined, "env-access"}, REFRESH_TOKEN : {Undefined, "", "env-refresh"}]

\* what .credentials.json can hold when it parses
FileContents ==
    { [access_token |-> "file-access", refresh_token |-> "file-refresh", expiry_date |-> "t0"],
      [access_token |-> "file-access", refresh_token |-> Undefined, expiry_date |-> Undefined] }

\* the credentials file: absent, present but not JSON, or present with a content
NoFile == [exists |-> FALSE, parsable |-> FALSE, content |-> NoCredentials]

GarbageFile == [exists |-> TRUE, parsable |-> FALSE, content |-> NoCredentials]

JsonFile(c) == [exists |-> TRUE, parsable |-> TRUE, content |-> c]

Files == {NoFile, GarbageFile} \cup {JsonFile(c) : c \in FileContents}

\* the payload of a 'tokens' event: any subset of the keys
TokenEvents ==
    [access_token : {Undefined, "a1", "a2"},
     refresh_token : {Undefined, "r1"},
     expiry_date : {Undefined, "t1"}]

VARIABLES
    env,          \* process.env (ACCESS_TOKEN, REFRESH_TOKEN)
    file,         \* .credentials.json
    credentials,  \* oAuth2Client.credentials
    loaded,       \* the credentials setupAuth handed to setCredentials
    lastWrite,    \* how the last fs.writeFileSync of the callback ended
    pc,           \* position of the constructor / process
    source,       \* which branch of setupAuth set the credentials
    listeners,    \* listeners registered on oAuth2Client 'tokens'
    tasks,        \* this.tasks exists (google.tasks was called)
    handlers,     \* the request handlers are installed
    exitCode,     \* status passed to process.exit, -1 while the process lives
    notified,     \* the 'tokens' events delivered so far
    writes,       \* writeFileSync calls made by the 'tokens' callback
    req,          \* the request being handled, or the last one handled
    phase,        \* where the handler of req is suspended: idle when it is not
    calls,        \* the gateway calls issued for req, in issue order
    lists,        \* the task lists the enumeration of req returned
    replies,      \* per enumerated list: the answer to its call, once it has come
    order,        \* the enumeration indexes of the answered calls, in completion order
    caught,       \* the upstream failure a catch block of the handler received
    raised,       \* the code of the McpError the handler body threw, "" if none
    resp          \* what the handler of req gave back to the protocol layer

authVars == <<env, file, credentials, loaded, pc, source, listeners, tasks, handlers, exitCode, notified, writes,
             lastWrite>>

reqVars == <<req, phase, calls, lists, replies, order, caught, raised, resp>>

vars == <<authVars, reqVars>>

----------------------------------------------------------------------------
(***************************************************************************)
(* Startup: constructor, setupAuth, setupTokenRefreshHandler, setupHandlers*)
(***************************************************************************)

\* a variant of the first test that wants both variables set
BothTokensSet(e) == Truthy(e.ACCESS_TOKEN) /\ Truthy(e.REFRESH_TOKEN)

\* setupAuth, first test: the environment branch is taken on REFRESH_TOKEN alone
UsesEnvironment(e) == Truthy(e.REFRESH_TOKEN)

\* a variant of setupAuth whose catch around JSON.parse logs and goes on
LoadCredentialsLenient(e, f) ==
    IF UsesEnvironment(e)
    THEN [exit |-> FALSE, source |-> "env",
          credentials |-> [access_token |-> e.ACCESS_TOKEN,
                           refresh_token |-> e.REFRESH_TOKEN,
                           expiry_date |-> Undefined]]
    ELSE IF f.exists
         THEN [exit |-> FALSE, source |-> "file", credentials |-> f.content]
         ELSE [exit |-> TRUE, source |-> "none", credentials |-> NoCredentials]

\* setupAuth, the three branches: what is handed to setCredentials, or exit(1)
LoadCredentials(e, f) ==
    IF UsesEnvironment(e)
    THEN [exit |-> FALSE, source |-> "env",
          credentials |-> [access_token |-> e.ACCESS_TOKEN,
                           refresh_token |-> e.REFRESH_TOKEN,
                           expiry_date |-> Undefined]]
    ELSE IF f.exists
         THEN IF f.parsable
              THEN [exit |-> FALSE, source |-> "file", credentials |-> f.content]
              ELSE [exit |-> TRUE, source |-> "file", credentials |-> NoCredentials]
         ELSE [exit |-> TRUE, source |-> "none", credentials |-> NoCredentials]

\* constructor up to the end of the if/else chain of setupAuth
setupAuth ==
    /\ pc = "constructor"
    /\ LET r == LoadCredentials(env, file)
       IN /\ source' = r.source
          /\ IF r.exit
             THEN /\ pc' = "exited"
                  /\ exitCode' = 1
                  /\ UNCHANGED <<credentials, loaded>>
             ELSE /\ pc' = "credentialsSet"
                  /\ credentials' = r.credentials
                  /\ loaded' = r.credentials
                  /\ UNCHANGED exitCode
    /\ UNCHANGED <<env, file, listeners, tasks, handlers, notified, writes, lastWrite>>
    /\ UNCHANGED reqVars

\* a variant of setupAuth that registers the listener a second time
setupTokenRefreshHandlerTwice ==
    /\ pc = "credentialsSet"
    /\ listeners' = listeners + 2
    /\ pc' = "listening"
    /\ UNCHANGED <<env, file, credentials, loaded, source, tasks, handlers, exitCode, notified, writes, lastWrite>>
    /\ UNCHANGED reqVars

\* setupAuth line 322: this.oAuth2Client.on('tokens', ...)
setupTokenRefreshHandler ==
    /\ pc = "credentialsSet"
    /\ listeners' = listeners + 1
    /\ pc' = "listening"
    /\ UNCHANGED <<env, file, credentials, loaded, source, tasks, handlers, exitCode, notified, writes, lastWrite>>
    /\ UNCHANGED reqVars

\* setupAuth lines 325-328: this.tasks = google.tasks(...)
createTasksClient ==
    /\ pc = "listening"
    /\ tasks' = TRUE
    /\ pc' = "clientCreated"
    /\ UNCHANGED <<env, file, credentials, loaded, source, listeners, handlers, exitCode, notified, writes, lastWrite>>
    /\ UNCHANGED reqVars

\* constructor line 295: setupHandlers (resource and tool handlers)
setupHandlers ==
    /\ pc = "clientCreated"
    /\ handlers' = TRUE
    /\ pc' = "handlersInstalled"
    /\ UNCHANGED <<env, file, credentials, loaded, source, listeners, tasks, exitCode, notified, writes, lastWrite>>
    /\ UNCHANGED reqVars

\* server.run(): the transport is connected, requests can arrive
run ==
    /\ pc = "handlersInstalled"
    /\ pc' = "running"
    /\ UNCHANGED <<env, file, credentials, loaded, source, listeners, tasks, handlers, exitCode, notified, writes, lastWrite>>
    /\ UNCHANGED reqVars

----------------------------------------------------------------------------
(***************************************************************************)
(* The 'tokens' callback.                                                  *)
(***************************************************************************)

\* a variant of the callback that installs the event's payload as it came
replacedCredentials(c, tokens) == tokens

\* {...credentials, ...tokens}: a key the event carries wins, others are kept
updatedCredentials(c, tokens) ==
    [k \in DOMAIN c |-> IF tokens[k] # Undefined THEN tokens[k] ELSE c[k]]

\* a variant of the outer test that takes a refresh_token as well
HasAnyToken(tokens) == Truthy(tokens.access_token) \/ Truthy(tokens.refresh_token)

\* the callback's outer test: if (tokens.access_token)
HasNewAccessToken(tokens) == Truthy(tokens.access_token)

\* a variant of the callback that never saves
NeverSaves(f) == FALSE

\* the callback's inner test: if (fs.existsSync(CREDENTIALS_PATH))
SavesToFile(f) == f.exists

\* fs.writeFileSync either replaces the file, or throws leaving it as it was
\* or cut short
WriteOutcomes(f, c) == {JsonFile(c), f, GarbageFile}

\* a variant of the callback that puts the credentials back when the file
\* could not be written
onTokensRollingBack(tokens) ==
    /\ listeners >= 1
    /\ pc = "running"
    /\ Len(notified) < MaxRefresh
    /\ notified' = Append(notified, tokens)
    /\ IF HasNewAccessToken(tokens)
       THEN LET updated == updatedCredentials(credentials, tokens)
            IN IF SavesToFile(file)
               THEN /\ writes' = writes + 1
                    /\ file' \in WriteOutcomes(file, updated)
                    /\ lastWrite' = IF file' = JsonFile(updated) THEN "ok" ELSE "failed"
                    /\ credentials' = IF file' = JsonFile(updated) THEN updated ELSE credentials
               ELSE /\ credentials' = updated
                    /\ UNCHANGED <<file, writes, lastWrite>>
       ELSE UNCHANGED <<credentials, file, writes, lastWrite>>
    /\ UNCHANGED <<env, loaded, pc, source, listeners, tasks, handlers, exitCode>>
    /\ UNCHANGED reqVars

\* one 'tokens' event delivered to the registered listener; the client
\* emits it when it refreshes the access token for a gateway call, which
\* the constructor, synchronous to its end, does not make
onTokens(tokens) ==
    /\ listeners >= 1
    /\ pc = "running"
    /\ Len(notified) < MaxRefresh
    /\ notified' = Append(notified, tokens)
    /\ IF HasNewAccessToken(tokens)
       THEN LET updated == updatedCredentials(credentials, tokens)
            IN /\ credentials' = updated
               /\ IF SavesToFile(file)
                  THEN /\ writes' = writes + 1
                       /\ file' \in WriteOutcomes(file, updated)
                       /\ lastWrite' = IF file' = JsonFile(updated) THEN "ok" ELSE "failed"
                  ELSE UNCHANGED <<file, writes, lastWrite>>
       ELSE UNCHANGED <<credentials, file, writes, lastWrite>>
    /\ UNCHANGED <<env, loaded, pc, source, listeners, tasks, handlers, exitCode>>
    /\ UNCHANGED reqVars

----------------------------------------------------------------------------
(***************************************************************************)
(* Requests, gateway calls and responses.                                  *)
(***************************************************************************)
\* most task lists one enumeration returns
MaxLists == 3

\* most tasks one tasks.list page returns
MaxItems == 2

\* title, notes and query are strings the code looks into: sequences of
\* characters, with a marker for undefined
NoText == <<"<undefined>">>

TruthyText(t) == t \notin {NoText, <<>>}

\* ErrorCode of the protocol SDK
ErrorCodes == {"InvalidParams", "InvalidRequest", "InternalError", "MethodNotFound"}

\* what a gateway call can end in: a response, a GaxiosError carrying a
\* response with an HTTP status, or an exception without one
Ok == [ok |-> TRUE, response |-> FALSE, status |-> 0]

HttpError(s) == [ok |-> FALSE, response |-> TRUE, status |-> s]

NetworkError == [ok |-> FALSE, response |-> FALSE, status |-> 0]

HttpStatuses == {400, 401, 403, 404, 429, 500}

Failures == {HttpError(s) : s \in HttpStatuses} \cup {NetworkError}

Outcomes == {Ok} \cup Failures

\* the request body of insert / patch / update: the keys the code sets
NoBody ==
    [title |-> NoText, notes |-> NoText, due |-> Undefined, status |-> Undefined,
     parent |-> Undefined, previous |-> Undefined, taskListId |-> Undefined]

\* one call on the gateway; maxResults is 0 and pageToken undefined when
\* the call does not pass them
Call(api, tasklist, task, body) ==
    [api |-> api, tasklist |-> tasklist, task |-> task, body |-> body,
     maxResults |-> 0, pageToken |-> Undefined]

MAX_TASK_RESULTS == 100

MAX_TASKLIST_RESULTS == 100

\* const pageSize = 10 of the two resource listings
pageSize == 10

\* a handler's return value or the error it throws; mcp tells a McpError
\* from any other exception
NoResult ==
    [status |-> "none", mcp |-> FALSE, code |-> "", text |-> FALSE, resource |-> FALSE,
     count |-> -1, tasks |-> <<>>, cursor |-> Undefined]

Success(resource, count, items) ==
    [status |-> "success", mcp |-> FALSE, code |-> "", text |-> TRUE, resource |-> resource,
     count |-> count, tasks |-> items, cursor |-> Undefined]

ThrowMcp(code) ==
    [status |-> "error", mcp |-> TRUE, code |-> code, text |-> FALSE, resource |-> FALSE,
     count |-> -1, tasks |-> <<>>, cursor |-> Undefined]

\* an exception that is no McpError escaping a handler body
ThrowOther ==
    [status |-> "error", mcp |-> FALSE, code |-> "", text |-> FALSE, resource |-> FALSE,
     count |-> -1, tasks |-> <<>>, cursor |-> Undefined]

\* an upstream failure caught at a call site of the code
Caught(site, error) == [site |-> site, error |-> error]

NoCatch == Caught("", Ok)

\* what an operation did: the calls it issued, how it ended, and the upstream
\* failure its catch block received
Done(cs, r, c) == [calls |-> cs, result |-> r, caught |-> c]

\* a variant of handleApiError that ignores the call site's fallback
handleApiErrorNoFallback(error, errorCode) ==
    IF error.response /\ error.status = 400 THEN "InvalidParams"
    ELSE IF error.response /\ error.status \in {401, 403} THEN "InvalidRequest"
    ELSE IF error.response /\ error.status = 404 THEN "InvalidRequest"
    ELSE "InternalError"

\* handleApiError: the McpError code thrown for an upstream error, errorCode
\* being the call site's fallback
handleApiError(error, errorCode) ==
    IF error.response /\ error.status = 400 THEN "InvalidParams"
    ELSE IF error.response /\ error.status \in {401, 403} THEN "InvalidRequest"
    ELSE IF error.response /\ error.status = 404 THEN "InvalidRequest"
    ELSE errorCode

----------------------------------------------------------------------------
(***************************************************************************)
(* Tasks as the gateway returns them, and as the server serializes them.   *)
(***************************************************************************)
ToLowerChar(c) ==
    CASE c = "A" -> "a"
      [] c = "B" -> "b"
      [] OTHER -> c

\* a variant of the search filter that compares the texts as they are
toLowerCaseAsIs(t) == t

\* String.prototype.toLowerCase
toLowerCase(t) == [i \in 1..Len(t) |-> ToLowerChar(t[i])]

\* String.prototype.includes
includes(t, q) ==
    \E i \in 0..(Len(t) - Len(q)) : \A j \in 1..Len(q) : t[i + j] = q[j]

\* a task with every field set
FullTask(id) ==
    [id |-> id, title |-> <<"A", "b">>, status |-> "completed", notes |-> <<"b", "A">>,
     due |-> "due", completed |-> "done", parent |-> "P", position |-> "0001",
     updated |-> "upd", hidden |-> True, deleted |-> True, etag |-> "etag",
     selfLink |-> "self", links |-> "[link]"]

\* a task for which the gateway left out every optional field
SparseTask(id) ==
    [id |-> id, title |-> <<"a">>, status |-> Undefined, notes |-> NoText,
     due |-> Undefined, completed |-> Undefined, parent |-> Undefined, position |-> Undefined,
     updated |-> Undefined, hidden |-> Undefined, deleted |-> Undefined, etag |-> Undefined,
     selfLink |-> Undefined, links |-> Undefined]

\* a task with empty strings and false flags
BlankTask(id) ==
    [id |-> id, title |-> <<>>, status |-> "needsAction", notes |-> <<>>,
     due |-> "", completed |-> Undefined, parent |-> "", position |-> "0002",
     updated |-> "upd", hidden |-> False, deleted |-> False, etag |-> "",
     selfLink |-> Undefined, links |-> Undefined]

\* the k-th task of the list enumerated at position l
TaskOf(l, k) ==
    LET id == "T" \o ToString(l) \o ToString(k)
    IN CASE (l + k) % 3 = 0 -> SparseTask(id)
         [] (l + k) % 3 = 1 -> BlankTask(id)
         [] OTHER -> FullTask(id)

\* the first page of list l when it holds n tasks
PageOf(l, n) == [k \in 1..n |-> TaskOf(l, k)]

\* x || d on a string field
OrElse(x, d) == IF Truthy(x) THEN x ELSE d

\* x || false on a boolean field
OrFalse(x) == IF Truthy(x) THEN x ELSE False

\* TaskActions.serializeTask
serializeTask(task) ==
    [id |-> OrElse(task.id, Null),
     title |-> IF TruthyText(task.title) THEN task.title ELSE <<"U", "n", "t", "i", "t", "l", "e", "d">>,
     status |-> OrElse(task.status, "needsAction"),
     notes |-> IF TruthyText(task.notes) THEN task.notes ELSE <<Null>>,
     due |-> OrElse(task.due, Null),
     completed |-> OrElse(task.completed, Null),
     parent |-> OrElse(task.parent, Null),
     position |-> OrElse(task.position, Null),
     updated |-> OrElse(task.updated, Null),
     hidden |-> OrFalse(task.hidden),
     deleted |-> OrFalse(task.deleted),
     etag |-> OrElse(task.etag, Null),
     selfLink |-> OrElse(task.selfLink, Null),
     links |-> OrElse(task.links, "[]")]

\* allTasks.map(t => this.serializeTask(t))
serializeTasks(items) == [i \in 1..Len(items) |-> serializeTask(items[i])]

\* results.flat(): the per-list arrays joined in array order
RECURSIVE flat(_)
flat(arrays) ==
    IF arrays = <<>> THEN <<>> ELSE Head(arrays) \o flat(Tail(arrays))

----------------------------------------------------------------------------
(***************************************************************************)
(* Tool operations (TaskListActions, TaskActions).  Each takes the         *)
(* argument bag, the outcome o of its one gateway call and the size n of   *)
(* the data the gateway returns, and gives the calls issued and the value  *)
(* returned or the error thrown.                                           *)
(***************************************************************************)
\* request.params.arguments with no key set
NoArgs ==
    [id |-> Undefined, title |-> NoText, taskListId |-> Undefined, query |-> NoText,
     notes |-> NoText, due |-> Undefined, status |-> Undefined, parent |-> Undefined,
     previous |-> Undefined]

\* the task a single-task call returns
GatewayTask(n) == TaskOf(1, n + 1)

\* a variant that passes the taskListId on as it came
OrDefaultListAsGiven(taskListId) == taskListId

\* (x as string) || "@default"
OrDefaultList(taskListId) == IF Truthy(taskListId) THEN taskListId ELSE "@default"

\* a required argument is missing: thrown before the try block
Reject(code) == Done(<<>>, ThrowMcp(code), NoCatch)

\* try { one gateway call; return success } catch { throw McpError(code) }
OneCall(site, call, o, success, code) ==
    IF o.ok THEN Done(<<call>>, success, NoCatch)
    ELSE Done(<<call>>, ThrowMcp(code), Caught(site, o))

TaskListActions_list(args, o, n) ==
    OneCall("TaskListActions.list",
            [Call("tasklists.list", Undefined, Undefined, NoBody) EXCEPT !.maxResults = MAX_TASKLIST_RESULTS], o,
            Success(TRUE, n, <<>>), "InternalError")

TaskListActions_get(args, o, n) ==
    IF ~Truthy(args.id) THEN Reject("InvalidParams")
    ELSE OneCall("TaskListActions.get", Call("tasklists.get", args.id, Undefined, NoBody), o,
                 Success(TRUE, -1, <<>>), "InternalError")

TaskListActions_create(args, o, n) ==
    IF ~TruthyText(args.title) THEN Reject("InvalidParams")
    ELSE OneCall("TaskListActions.create",
                 Call("tasklists.insert", Undefined, Undefined, [NoBody EXCEPT !.title = args.title]), o,
                 Success(TRUE, -1, <<>>), "InternalError")

\* a variant of TaskListActions.update that does not test the title
TaskListActions_update_anyTitle(args, o, n) ==
    IF ~Truthy(args.id) THEN Reject("InvalidParams")
    ELSE OneCall("TaskListActions.update",
                 Call("tasklists.update", args.id, Undefined, [NoBody EXCEPT !.title = args.title]), o,
                 Success(TRUE, -1, <<>>), "InternalError")

TaskListActions_update(args, o, n) ==
    IF ~Truthy(args.id) THEN Reject("InvalidParams")
    ELSE IF ~TruthyText(args.title) THEN Reject("InvalidParams")
    ELSE OneCall("TaskListActions.update",
                 Call("tasklists.update", args.id, Undefined, [NoBody EXCEPT !.title = args.title]), o,
                 Success(TRUE, -1, <<>>), "InternalError")

TaskListActions_delete(args, o, n) ==
    IF ~Truthy(args.id) THEN Reject("InvalidParams")
    ELSE OneCall("TaskListActions.delete", Call("tasklists.delete", args.id, Undefined, NoBody), o,
                 Success(FALSE, -1, <<>>), "InternalError")

\* a variant of TaskActions.create that copies the optional arguments as
\* they came, and the taskListId with them
createBodyAsSupplied(args) ==
    [NoBody EXCEPT
       !.title = args.title, !.notes = args.notes, !.due = args.due,
       !.status = args.status, !.parent = args.parent, !.taskListId = args.taskListId]

\* TaskActions.create: the task object built from the argument bag
createBody(args) ==
    [NoBody EXCEPT
       !.title = args.title,
       !.notes = IF TruthyText(args.notes) THEN args.notes ELSE NoText,
       !.due = IF Truthy(args.due) THEN args.due ELSE Undefined,
       !.status = IF Truthy(args.status) THEN args.status ELSE Undefined,
       !.parent = IF Truthy(args.parent) THEN args.parent ELSE Undefined]

TaskActions_create(args, o, n) ==
    IF ~TruthyText(args.title) THEN Reject("InvalidParams")
    ELSE OneCall("TaskActions.create",
                 Call("tasks.insert", OrDefaultList(args.taskListId), Undefined, createBody(args)), o,
                 Success(TRUE, -1, <<serializeTask(GatewayTask(n))>>),
                 handleApiError(o, "InternalError"))

\* TaskActions.update: the partial task built from the argument bag
updateBody(args) ==
    [NoBody EXCEPT
       !.title = IF TruthyText(args.title) THEN args.title ELSE NoText,
       !.notes = IF TruthyText(args.notes) THEN args.notes ELSE NoText,
       !.status = IF Truthy(args.status) THEN args.status ELSE Undefined,
       !.due = IF Truthy(args.due) THEN args.due ELSE Undefined,
       !.parent = IF Truthy(args.parent) THEN args.parent ELSE Undefined]

TaskActions_update(args, o, n) ==
    IF ~Truthy(args.id) THEN Reject("InvalidParams")
    ELSE OneCall("TaskActions.update",
                 Call("tasks.patch", OrDefaultList(args.taskListId), args.id, updateBody(args)), o,
                 Success(TRUE, -1, <<serializeTask(GatewayTask(n))>>), "InternalError")

TaskActions_get(args, o, n) ==
    IF ~Truthy(args.id) THEN Reject("InvalidParams")
    ELSE OneCall("TaskActions.get",
                 Call("tasks.get", OrDefaultList(args.taskListId), args.id, NoBody), o,
                 Success(TRUE, -1, <<serializeTask(GatewayTask(n))>>), "InternalError")

\* a variant of TaskActions.delete that answers with a structured payload
TaskActions_delete_withPayload(args, o, n) ==
    IF ~Truthy(args.id) THEN Reject("InvalidParams")
    ELSE OneCall("TaskActions.delete",
                 Call("tasks.delete", OrDefaultList(args.taskListId), args.id, NoBody), o,
                 Success(TRUE, -1, <<>>), "InternalError")

TaskActions_delete(args, o, n) ==
    IF ~Truthy(args.id) THEN Reject("InvalidParams")
    ELSE OneCall("TaskActions.delete",
                 Call("tasks.delete", OrDefaultList(args.taskListId), args.id, NoBody), o,
                 Success(FALSE, -1, <<>>), "InternalError")

\* TaskActions.move: parent and previous travel as call parameters, kept
\* here in the body slot of the call
moveParams(args) ==
    [NoBody EXCEPT
       !.parent = IF Truthy(args.parent) THEN args.parent ELSE Undefined,
       !.previous = IF Truthy(args.previous) THEN args.previous ELSE Undefined]

TaskActions_move(args, o, n) ==
    IF ~Truthy(args.id) THEN Reject("InvalidParams")
    ELSE OneCall("TaskActions.move",
                 Call("tasks.move", OrDefaultList(args.taskListId), args.id, moveParams(args)), o,
                 Success(FALSE, -1, <<>>), "InternalError")

TaskActions_clear(args, o, n) ==
    OneCall("TaskActions.clear",
            Call("tasks.clear", OrDefaultList(args.taskListId), Undefined, NoBody), o,
            Success(FALSE, -1, <<>>), "InternalError")

\* TaskActions._list with a taskListId: one call, a failure is logged and
\* gives []
TaskActions__list_scoped(taskListId, o, n) ==
    IF o.ok THEN PageOf(1, n) ELSE <<>>

\* TaskActions.list after _list has returned allTasks
listResponse(allTasks) == Success(TRUE, Len(allTasks), serializeTasks(allTasks))

\* the filter of TaskActions.search
matchesQuery(task, userQuery) ==
    \/ task.title # NoText /\ includes(toLowerCase(task.title), toLowerCase(userQuery))
    \/ task.notes # NoText /\ includes(toLowerCase(task.notes), toLowerCase(userQuery))

\* Array.prototype.filter with the search predicate
RECURSIVE filterTasks(_, _)
filterTasks(allTasks, userQuery) ==
    IF allTasks = <<>> THEN <<>>
    ELSE IF matchesQuery(Head(allTasks), userQuery)
         THEN <<Head(allTasks)>> \o filterTasks(Tail(allTasks), userQuery)
         ELSE filterTasks(Tail(allTasks), userQuery)

\* TaskActions.search after _list has returned allTasks
searchResponse(allTasks, userQuery) ==
    LET filteredItems == filterTasks(allTasks, userQuery)
    IN Success(TRUE, Len(filteredItems), serializeTasks(filteredItems))

\* a variant of the tasks.list call that asks for the default list
listCallDefault(taskListId) ==
    [Call("tasks.list", "@default", Undefined, NoBody) EXCEPT !.maxResults = MAX_TASK_RESULTS]

\* the tasks.list call of _list
listCall(taskListId) ==
    [Call("tasks.list", taskListId, Undefined, NoBody) EXCEPT !.maxResults = MAX_TASK_RESULTS]

\* the failure the catch of _list swallowed
Swallowed(o) == IF o.ok THEN NoCatch ELSE Caught("TaskActions._list", o)

\* a variant of TaskActions.list whose scoped call failing is raised
TaskActions_list_raising(args, o, n) ==
    OneCall("TaskActions._list", listCall(args.taskListId), o,
            listResponse(PageOf(1, n)), "InternalError")

\* TaskActions.list with a taskListId
TaskActions_list(args, o, n) ==
    Done(<<listCall(args.taskListId)>>,
         listResponse(TaskActions__list_scoped(args.taskListId, o, n)), Swallowed(o))

\* TaskActions.search with a taskListId
TaskActions_search(args, o, n) ==
    IF ~TruthyText(args.query) THEN Reject("InvalidParams")
    ELSE Done(<<listCall(args.taskListId)>>,
              searchResponse(TaskActions__list_scoped(args.taskListId, o, n), args.query),
              Swallowed(o))

----------------------------------------------------------------------------
(***************************************************************************)
(* The tool-call handler (CallToolRequestSchema).  A tool name is its      *)
(* prefix ("tasklist.", "task." or none) and the word after it.            *)
(***************************************************************************)
ToolName(prefix, op) == [prefix |-> prefix, op |-> op]

NoName == ToolName("", "")

TaskListOps == {"list", "get", "create", "update", "delete"}

TaskOps == {"search", "list", "get", "create", "update", "move", "delete", "clear"}

\* the un-prefixed names of the backwards-compatibility switch
LegacyOps == {"search", "list", "create", "update", "delete", "clear"}

\* a variant of the handler with one switch for every name
RouteAnyPrefix(name) ==
    IF name.prefix = "tasklist."
    THEN IF name.op \in TaskListOps THEN "TaskListActions." \o name.op ELSE "MethodNotFound"
    ELSE IF name.op \in TaskOps THEN "TaskActions." \o name.op ELSE "MethodNotFound"

\* the three switches of the handler: the method a name reaches
Route(name) ==
    IF name.prefix = "tasklist."
    THEN IF name.op \in TaskListOps THEN "TaskListActions." \o name.op ELSE "MethodNotFound"
    ELSE IF name.prefix = "task."
         THEN IF name.op \in TaskOps THEN "TaskActions." \o name.op ELSE "MethodNotFound"
         ELSE IF name.op \in LegacyOps THEN "TaskActions." \o name.op ELSE "MethodNotFound"

\* the method the switch selected, run to its end
Invoke(route, args, o, n) ==
    CASE route = "TaskListActions.list" -> TaskListActions_list(args, o, n)
      [] route = "TaskListActions.get" -> TaskListActions_get(args, o, n)
      [] route = "TaskListActions.create" -> TaskListActions_create(args, o, n)
      [] route = "TaskListActions.update" -> TaskListActions_update(args, o, n)
      [] route = "TaskListActions.delete" -> TaskListActions_delete(args, o, n)
      [] route = "TaskActions.search" -> TaskActions_search(args, o, n)
      [] route = "TaskActions.list" -> TaskActions_list(args, o, n)
      [] route = "TaskActions.get" -> TaskActions_get(args, o, n)
      [] route = "TaskActions.create" -> TaskActions_create(args, o, n)
      [] route = "TaskActions.update" -> TaskActions_update(args, o, n)
      [] route = "TaskActions.move" -> TaskActions_move(args, o, n)
      [] route = "TaskActions.delete" -> TaskActions_delete(args, o, n)
      [] route = "TaskActions.clear" -> TaskActions_clear(args, o, n)
      [] OTHER -> Reject("MethodNotFound")

\* the handler's catch: a McpError is rethrown, anything else is wrapped
CallToolCatch(r) ==
    IF r.status = "error" /\ ~r.mcp THEN ThrowMcp("InternalError") ELSE r

\* the request reaches _list without a taskListId: the fan-out over all lists
FansOut(name, args) ==
    /\ ~Truthy(args.taskListId)
    /\ \/ Route(name) = "TaskActions.list"
       \/ Route(name) = "TaskActions.search" /\ TruthyText(args.query)

----------------------------------------------------------------------------
(***************************************************************************)
(* Requests.                                                               *)
(***************************************************************************)
NoUri == [scheme |-> "", rest |-> <<>>]

NoLocals == [count |-> 0, cursor |-> Undefined]

NoRequest ==
    [kind |-> "none", name |-> NoName, args |-> NoArgs, uri |-> NoUri, pattern |-> "",
     cursor |-> Undefined, locals |-> NoLocals]

ToolRequest(name, args) == [NoRequest EXCEPT !.kind = "tool", !.name = name, !.args = args]

ReadRequest(uri) == [NoRequest EXCEPT !.kind = "read", !.uri = uri]

ListRequest(pattern, cursor) ==
    [NoRequest EXCEPT !.kind = "list", !.pattern = pattern, !.cursor = cursor]

\* the answer to one per-list call of a fan-out
Unissued == [state |-> "unissued", items |-> <<>>, token |-> Undefined]

Pending == [state |-> "pending", items |-> <<>>, token |-> Undefined]

Fulfilled(items, token) == [state |-> "ok", items |-> items, token |-> token]

Rejected == [state |-> "failed", items |-> <<>>, token |-> Undefined]

\* the server is up: constructed, handlers installed, transport connected
Serving == pc = "running" /\ handlers /\ tasks

\* the code of the McpError a handler body threw, "" when it threw none
RaisedCode(r) == IF r.status = "error" /\ r.mcp THEN r.code ELSE ""

\* a variant without the filter: every enumerated list gets a call
WithIdOrNot(ls) == 1..Len(ls)

\* .filter(taskList => taskList.id): the enumeration indexes that get a call
WithId(ls) == {i \in 1..Len(ls) : Truthy(ls[i])}

\* the elements of a set of indexes in increasing order
RECURSIVE Ascending(_)
Ascending(S) ==
    IF S = {} THEN <<>>
    ELSE LET m == CHOOSE x \in S : \A y \in S : x <= y
         IN <<m>> \o Ascending(S \ {m})

\* the lists one enumeration can return: up to MaxLists, some without an id
Enumerations ==
    UNION { { [i \in 1..n |-> IF hasId[i] THEN "L" \o ToString(i) ELSE Undefined] :
              hasId \in [1..n -> BOOLEAN] } : n \in 0..MaxLists }

\* how a per-list call can fail
PerListFailures == {HttpError(404), HttpError(500)}

\* how a tasks.get of the search for a task can fail: the list does not
\* hold the task, the credentials are refused, the server fails
GetFailures == {HttpError(404), HttpError(401), HttpError(500)}

----------------------------------------------------------------------------
(***************************************************************************)
(* Resource handlers (TaskListResources, TaskResources and the two         *)
(* resource request handlers of the server).                               *)
(***************************************************************************)
Uri(scheme, rest) == [scheme |-> scheme, rest |-> rest]

\* a variant of TaskResources.read without the branch for a URI that
\* names the list
IsCompoundNever(rest) == FALSE

\* taskId.match(/^(.*?)\/tasks\/(.*?)$/) on the path after the scheme
IsCompound(rest) == Len(rest) = 3 /\ rest[2] = "tasks"

\* TaskListResources.list: one tasklists.list page of pageSize lists
TaskListResources_list(cursor, o, n, token) ==
    LET call == [Call("tasklists.list", Undefined, Undefined, NoBody)
                   EXCEPT !.maxResults = pageSize, !.pageToken = OrElse(cursor, Undefined)]
    IN IF o.ok
       THEN Done(<<call>>, [Success(FALSE, n, <<>>) EXCEPT !.cursor = OrElse(token, Null)], NoCatch)
       ELSE Done(<<call>>, ThrowMcp(handleApiError(o, "InternalError")),
                 Caught("TaskListResources.list", o))

\* TaskListResources.read
TaskListResources_read(uri, o) ==
    OneCall("TaskListResources.read", Call("tasklists.get", uri.rest[1], Undefined, NoBody), o,
            Success(FALSE, -1, <<>>), handleApiError(o, "InvalidRequest"))

\* TaskResources.read, the URI names the list: gtasks:///{list}/tasks/{task}
TaskResources_read_compound(uri, o) ==
    OneCall("TaskResources.read (list given)", Call("tasks.get", uri.rest[1], uri.rest[3], NoBody), o,
            Success(FALSE, -1, <<>>), handleApiError(o, "InvalidRequest"))

\* a variant of the for loop without the break: every list is asked
searchedListsAll(idx, outs) == idx

\* the for loop of TaskResources.read: the lists asked, in order, up to the
\* first whose tasks.get succeeds
RECURSIVE searchedLists(_, _)
searchedLists(idx, outs) ==
    IF idx = <<>> THEN <<>>
    ELSE IF outs[Head(idx)].ok THEN <<Head(idx)>>
         ELSE <<Head(idx)>> \o searchedLists(Tail(idx), outs)

\* TaskResources.read, the URI names only the task: gtasks:///{task}
TaskResources_read_bare(uri, o, ls, outs) ==
    LET enumerate == [Call("tasklists.list", Undefined, Undefined, NoBody)
                        EXCEPT !.maxResults = MAX_TASKLIST_RESULTS]
        asked == searchedLists(Ascending(WithId(ls)), outs)
        gets == [k \in 1..Len(asked) |-> Call("tasks.get", ls[asked[k]], uri.rest[1], NoBody)]
        found == \E k \in 1..Len(asked) : outs[asked[k]].ok
        failed == {k \in 1..Len(asked) : ~outs[asked[k]].ok}
        lastError == IF failed = {} THEN NoCatch
                     ELSE Caught("TaskResources.read (for loop)",
                                 outs[asked[CHOOSE k \in failed : \A j \in failed : j <= k]])
    IN IF ~o.ok
       THEN Done(<<enumerate>>, ThrowMcp(handleApiError(o, "InternalError")),
                 Caught("TaskResources.read (all lists)", o))
       ELSE Done(<<enumerate>> \o gets,
                 IF found THEN Success(FALSE, -1, <<>>) ELSE ThrowMcp("InvalidRequest"),
                 lastError)

\* the default task list view of the read handler: gtasks:///default
ReadDefaultView(o, n) ==
    IF o.ok
    THEN Done(<<Call("tasks.list", "@default", Undefined, NoBody)>>,
              Success(FALSE, -1, PageOf(1, n)), NoCatch)
    ELSE Done(<<Call("tasks.list", "@default", Undefined, NoBody)>>, ThrowOther,
              Caught("ReadResource", o))

\* the body of the ReadResourceRequestSchema handler
ReadResourceBody(uri, o, n, ls, outs) ==
    IF uri.scheme = "gtasklists:///" THEN TaskListResources_read(uri, o)
    ELSE IF uri.scheme = "gtasks:///"
         THEN IF uri.rest = <<"default">> THEN ReadDefaultView(o, n)
              ELSE IF IsCompound(uri.rest) THEN TaskResources_read_compound(uri, o)
              ELSE TaskResources_read_bare(uri, o, ls, outs)
         ELSE Reject("InvalidRequest")

\* the read handler's catch: a McpError is rethrown, anything else is wrapped
ReadResourceCatch(r) ==
    IF r.status = "error" /\ ~r.mcp THEN ThrowMcp("InternalError") ELSE r

\* the list handler's catch: whatever was thrown is wrapped
ListResourcesCatch(r) ==
    IF r.status = "error" THEN ThrowMcp("InternalError") ELSE r

\* the URIs read in the model
ReadUris ==
    { Uri("gtasklists:///", <<"L1">>),
      Uri("gtasks:///", <<"default">>),
      Uri("gtasks:///", <<"L1", "tasks", "T11">>),
      Uri("gtasks:///", <<"T11">>),
      Uri("file:///", <<"x">>) }

\* a resource read: every path of the read handler runs its calls one at a time
ReadResource(uri, o, n, ls, outs) ==
    /\ Serving
    /\ phase = "idle"
    /\ LET d == ReadResourceBody(uri, o, n, ls, outs)
           bare == uri.scheme = "gtasks:///" /\ uri.rest # <<"default">> /\ ~IsCompound(uri.rest) /\ o.ok
           asked == searchedLists(Ascending(WithId(ls)), outs)
       IN /\ req' = ReadRequest(uri)
          /\ calls' = d.calls
          /\ caught' = d.caught
          /\ raised' = RaisedCode(d.result)
          /\ resp' = ReadResourceCatch(d.result)
          /\ lists' = IF bare THEN ls ELSE <<>>
          /\ replies' = IF bare
                        THEN [i \in 1..Len(ls) |->
                                IF \E k \in 1..Len(asked) : asked[k] = i
                                THEN IF outs[i].ok THEN Fulfilled(<<>>, Undefined) ELSE Rejected
                                ELSE Unissued]
                        ELSE <<>>
          /\ order' = IF bare THEN asked ELSE <<>>
    /\ phase' = "responded"
    /\ UNCHANGED authVars

\* the patterns of a resource listing: task lists, tasks, or none (both)
ListPatterns == {"gtasklists:///", "gtasks:///", ""}

\* a resource listing that ends with TaskListResources.list: the pattern asks
\* for task lists only, or the first of the two listings fails
ListResources(pattern, cursor, o, n, token) ==
    /\ Serving
    /\ phase = "idle"
    /\ pattern = "gtasklists:///" \/ (pattern = "" /\ ~o.ok)
    /\ LET d == TaskListResources_list(cursor, o, n, token)
       IN /\ req' = ListRequest(pattern, cursor)
          /\ calls' = d.calls
          /\ caught' = d.caught
          /\ raised' = RaisedCode(d.result)
          /\ resp' = ListResourcesCatch(d.result)
    /\ lists' = <<>>
    /\ replies' = <<>>
    /\ order' = <<>>
    /\ phase' = "responded"
    /\ UNCHANGED authVars

\* a resource listing that reaches TaskResources.list, up to its first
\* await: tasklists.list is issued (after TaskListResources.list has
\* succeeded when the pattern is none)
ListFanOutBegin(pattern, cursor, o, n, token) ==
    /\ Serving
    /\ phase = "idle"
    /\ pattern = "gtasks:///" \/ (pattern = "" /\ o.ok)
    /\ pattern = "gtasks:///" => (o = Ok /\ n = 0 /\ token = Undefined)
    /\ LET first == IF pattern = "" THEN TaskListResources_list(cursor, o, n, token).calls ELSE <<>>
       IN /\ req' = [ListRequest(pattern, cursor) EXCEPT
                       !.locals = IF pattern = "" THEN [count |-> n, cursor |-> OrElse(token, Null)]
                                  ELSE NoLocals]
          /\ calls' = first \o <<[Call("tasklists.list", Undefined, Undefined, NoBody)
                                    EXCEPT !.maxResults = MAX_TASKLIST_RESULTS]>>
    /\ caught' = NoCatch
    /\ raised' = ""
    /\ resp' = NoResult
    /\ lists' = <<>>
    /\ replies' = <<>>
    /\ order' = <<>>
    /\ phase' = "enumerating"
    /\ UNCHANGED authVars

----------------------------------------------------------------------------
(***************************************************************************)
(* Tool calls, and the fan-out over all task lists shared by _list and     *)
(* TaskResources.list.                                                     *)
(***************************************************************************)

\* what the gateway answered to the one tasks.list call of a task.list or
\* task.search with a taskListId
scopedReplies(name, args, o, n) ==
    IF /\ Route(name) \in {"TaskActions.list", "TaskActions.search"}
       /\ Truthy(args.taskListId)
       /\ Route(name) = "TaskActions.search" => TruthyText(args.query)
    THEN <<IF o.ok THEN Fulfilled(PageOf(1, n), Undefined) ELSE Rejected>>
    ELSE <<>>

\* a variant of the tool-call handler that drops the live credentials when
\* the gateway refuses them
ToolCallDroppingCredentials(name, args, o, n) ==
    /\ Serving
    /\ phase = "idle"
    /\ ~FansOut(name, args)
    /\ LET d == Invoke(Route(name), args, o, n)
       IN /\ req' = ToolRequest(name, args)
          /\ calls' = d.calls
          /\ caught' = d.caught
          /\ raised' = RaisedCode(d.result)
          /\ resp' = CallToolCatch(d.result)
          /\ credentials' = IF d.caught.error.response /\ d.caught.error.status = 401
                            THEN NoCredentials ELSE credentials
    /\ lists' = <<>>
    /\ replies' = scopedReplies(name, args, o, n)
    /\ order' = <<>>
    /\ phase' = "responded"
    /\ UNCHANGED <<env, file, loaded, pc, source, listeners, tasks, handlers, exitCode, notified, writes, lastWrite>>

\* a tool call whose handler makes at most one gateway call
ToolCall(name, args, o, n) ==
    /\ Serving
    /\ phase = "idle"
    /\ ~FansOut(name, args)
    /\ LET d == Invoke(Route(name), args, o, n)
       IN /\ req' = ToolRequest(name, args)
          /\ calls' = d.calls
          /\ caught' = d.caught
          /\ raised' = RaisedCode(d.result)
          /\ resp' = CallToolCatch(d.result)
    /\ lists' = <<>>
    /\ replies' = scopedReplies(name, args, o, n)
    /\ order' = <<>>
    /\ phase' = "responded"
    /\ UNCHANGED authVars

\* task.list / task.search without a taskListId, up to the first await of
\* _list: tasklists.list is issued
ToolFanOutBegin(name, args) ==
    /\ Serving
    /\ phase = "idle"
    /\ FansOut(name, args)
    /\ req' = ToolRequest(name, args)
    /\ calls' = <<[Call("tasklists.list", Undefined, Undefined, NoBody)
                     EXCEPT !.maxResults = MAX_TASKLIST_RESULTS]>>
    /\ caught' = NoCatch
    /\ raised' = ""
    /\ resp' = NoResult
    /\ lists' = <<>>
    /\ replies' = <<>>
    /\ order' = <<>>
    /\ phase' = "enumerating"
    /\ UNCHANGED authVars

\* what the aggregating method returns to the request handler: TaskActions
\* .list / .search shape the tasks _list gave, the list handler shapes the
\* pair TaskResources.list gave
Aggregated(r, allTasks, cursor) ==
    IF r.kind = "tool"
    THEN IF Route(r.name) = "TaskActions.search"
         THEN searchResponse(allTasks, r.args.query)
         ELSE listResponse(allTasks)
    ELSE [Success(FALSE, r.locals.count + Len(allTasks), allTasks)
            EXCEPT !.cursor = IF Truthy(r.locals.cursor) /\ r.locals.cursor # Null
                              THEN r.locals.cursor ELSE cursor]

\* the catch of the request handler the aggregation runs under
HandlerCatch(r, result) ==
    IF r.kind = "tool" THEN CallToolCatch(result) ELSE ListResourcesCatch(result)

\* what the aggregating method makes of a failed enumeration: _list logs it
\* and returns [], TaskResources.list hands it to handleApiError
EnumerationFailed(r, o) ==
    IF r.kind = "tool"
    THEN Done(<<>>, Aggregated(r, <<>>, Null), Swallowed(o))
    ELSE Done(<<>>, ThrowMcp(handleApiError(o, "InternalError")), Caught("TaskResources.list", o))

\* the per-list call of the aggregating method
PerListCall(r, taskListId) ==
    IF r.kind = "tool"
    THEN listCall(taskListId)
    ELSE [Call("tasks.list", taskListId, Undefined, NoBody)
            EXCEPT !.maxResults = pageSize, !.pageToken = OrElse(r.cursor, Undefined)]

\* _list returns [] at once when no list has an id; TaskResources.list
\* goes on to Promise.all of no promise
ReturnsEarly(r, ls) == r.kind = "tool" /\ WithId(ls) = {}

\* tasklists.list answers: on success every list with an id gets its
\* tasks.list call, all issued before the handler suspends on Promise.all
EnumerationDone(o, ls) ==
    /\ phase = "enumerating"
    /\ IF ~o.ok
       THEN LET d == EnumerationFailed(req, o)
            IN /\ caught' = d.caught
               /\ raised' = RaisedCode(d.result)
               /\ resp' = HandlerCatch(req, d.result)
               /\ phase' = "responded"
               /\ UNCHANGED <<calls, lists, replies>>
       ELSE /\ lists' = ls
            /\ IF ReturnsEarly(req, ls)
               THEN /\ resp' = HandlerCatch(req, Aggregated(req, <<>>, Null))
                    /\ phase' = "responded"
                    /\ replies' = [i \in 1..Len(ls) |-> Unissued]
                    /\ UNCHANGED calls
               ELSE /\ replies' = [i \in 1..Len(ls) |-> IF i \in WithId(ls) THEN Pending ELSE Unissued]
                    /\ calls' = calls \o [k \in 1..Cardinality(WithId(ls)) |->
                                            PerListCall(req, ls[Ascending(WithId(ls))[k]])]
                    /\ phase' = "fanout"
                    /\ UNCHANGED resp
            /\ UNCHANGED <<caught, raised>>
    /\ UNCHANGED <<req, order>>
    /\ UNCHANGED authVars

\* one per-list call answers; its async wrapper returns the page, or []
\* when the call failed
PerListDone(i, o, n, token) ==
    /\ phase = "fanout"
    /\ i \in DOMAIN replies
    /\ replies[i] = Pending
    /\ req.kind = "tool" => token = Undefined
    /\ replies' = [replies EXCEPT ![i] = IF o.ok THEN Fulfilled(PageOf(i, n), token) ELSE Rejected]
    /\ order' = Append(order, i)
    /\ UNCHANGED <<req, phase, calls, lists, resp, caught, raised>>
    /\ UNCHANGED authVars

\* a variant that collects the results as the calls complete
completionOrder(issued, completed) == completed

\* Promise.all: the results come in the order of the promise array
promiseAllOrder(issued, completed) == Ascending(issued)

\* a variant of the combining loop that takes what the last successful
\* result reported, a token or none
RECURSIVE lastTokenOrNull(_, _)
lastTokenOrNull(results, acc) ==
    IF results = <<>> THEN acc
    ELSE lastTokenOrNull(Tail(results),
                         IF Head(results).state = "ok"
                         THEN OrElse(Head(results).token, Null) ELSE acc)

\* the combining loop of TaskResources.list: the token of the last
\* successful result that has one
RECURSIVE lastToken(_, _)
lastToken(results, acc) ==
    IF results = <<>> THEN acc
    ELSE lastToken(Tail(results),
                   IF Head(results).state = "ok" /\ Truthy(Head(results).token)
                   THEN Head(results).token ELSE acc)

\* a variant that resumes the handler without waiting for every call
JoinEarly ==
    /\ phase = "fanout"
    /\ \E idx \in {promiseAllOrder(WithId(lists), order)} :
          \E results \in {[k \in 1..Len(idx) |-> replies[idx[k]]]} :
             \E allTasks \in {flat([k \in 1..Len(idx) |-> results[k].items])} :
                \E cursor \in {lastToken(results, Null)} :
                   resp' = HandlerCatch(req, Aggregated(req, allTasks, cursor))
    /\ phase' = "responded"
    /\ UNCHANGED <<req, calls, lists, replies, order, caught, raised>>
    /\ UNCHANGED authVars

\* every per-list call has answered: the handler resumes after Promise.all
Join ==
    /\ phase = "fanout"
    /\ \A i \in DOMAIN replies : replies[i] # Pending
    /\ \E idx \in {promiseAllOrder(WithId(lists), order)} :
          \E results \in {[k \in 1..Len(idx) |-> replies[idx[k]]]} :
             \E allTasks \in {flat([k \in 1..Len(idx) |-> results[k].items])} :
                \E cursor \in {lastToken(results, Null)} :
                   resp' = HandlerCatch(req, Aggregated(req, allTasks, cursor))
    /\ phase' = "responded"
    /\ UNCHANGED <<req, calls, lists, replies, order, caught, raised>>
    /\ UNCHANGED authVars

----------------------------------------------------------------------------
(***************************************************************************)
(* The _list of the alternate version of Tasks.ts: one awaited tasks.list  *)
(* per list, in a loop.  answers[i] is what the gateway answers to the     *)
(* call on list i.                                                         *)
(***************************************************************************)

\* a variant of the loop that gives up at the first call that fails
RECURSIVE sequentialLoopStopping(_, _, _, _)
sequentialLoopStopping(taskLists, answers, i, allTasks) ==
    IF i > Len(taskLists) THEN allTasks
    ELSE IF ~Truthy(taskLists[i]) THEN sequentialLoopStopping(taskLists, answers, i + 1, allTasks)
    ELSE IF answers[i].state = "ok"
         THEN sequentialLoopStopping(taskLists, answers, i + 1, allTasks \o answers[i].items)
         ELSE allTasks

\* for (const taskList of taskLists): a list without an id is skipped, a
\* page is appended to allTasks, a failure is logged and the loop goes on
RECURSIVE sequentialLoop(_, _, _, _)
sequentialLoop(taskLists, answers, i, allTasks) ==
    IF i > Len(taskLists) THEN allTasks
    ELSE IF ~Truthy(taskLists[i]) THEN sequentialLoop(taskLists, answers, i + 1, allTasks)
    ELSE IF answers[i].state = "ok"
         THEN sequentialLoop(taskLists, answers, i + 1, allTasks \o answers[i].items)
         ELSE sequentialLoop(taskLists, answers, i + 1, allTasks)

\* _list without a taskListId: tasklists.list is awaited outside any try,
\* so its failure leaves _list as an exception
TaskActions__list_sequential(o, taskLists, answers) ==
    IF o.ok
    THEN [raised |-> FALSE, allTasks |-> sequentialLoop(taskLists, answers, 1, <<>>)]
    ELSE [raised |-> TRUE, allTasks |-> <<>>]

----------------------------------------------------------------------------
(***************************************************************************)
(* The requests of the model.                                              *)
(***************************************************************************)
ToolNames ==
    {ToolName("tasklist.", op) : op \in TaskListOps \cup {"purge"}}
      \cup {ToolName("task.", op) : op \in TaskOps \cup {"archive"}}
      \cup {ToolName("", op) : op \in LegacyOps \cup {"get", "tasklist"}}

\* the argument keys each method reads
Reads(route) ==
    CASE route \in {"TaskListActions.get", "TaskListActions.delete"} -> {"id"}
      [] route = "TaskListActions.create" -> {"title"}
      [] route = "TaskListActions.update" -> {"id", "title"}
      [] route = "TaskActions.search" -> {"query", "taskListId"}
      [] route \in {"TaskActions.list", "TaskActions.clear"} -> {"taskListId"}
      [] route \in {"TaskActions.get", "TaskActions.delete"} -> {"taskListId", "id"}
      [] route = "TaskActions.create" -> {"title", "taskListId", "notes", "due", "status", "parent"}
      [] route = "TaskActions.update" -> {"taskListId", "id", "title", "notes", "status", "due", "parent"}
      [] route = "TaskActions.move" -> {"taskListId", "id", "parent", "previous"}
      [] OTHER -> {}

\* the values an argument takes: missing, empty, or set
ArgValues(key) ==
    CASE key = "id" -> {Undefined, "", "T11"}
      [] key = "title" -> {NoText, <<>>, <<"A", "b">>}
      [] key = "taskListId" -> {Undefined, "L1"}
      [] key = "query" -> {NoText, <<>>, <<"a">>, <<"A", "B">>}
      [] key = "notes" -> {NoText, <<>>, <<"b">>}
      [] key = "due" -> {Undefined, "due"}
      [] key = "status" -> {Undefined, "completed"}
      [] key = "parent" -> {Undefined, "", "P"}
      [] OTHER -> {Undefined, "Q"}

\* the argument bags sent with a tool name: the keys its method reads vary
ArgBags(name) ==
    LET V(key) == IF key \in Reads(Route(name)) THEN ArgValues(key) ELSE {NoArgs[key]}
    IN [id : V("id"), title : V("title"), taskListId : V("taskListId"), query : V("query"),
        notes : V("notes"), due : V("due"), status : V("status"), parent : V("parent"),
        previous : V("previous")]

Cursors == {Undefined, "cursor"}

\* the response has been handed to the protocol layer: the handler's frame
\* is gone
Deliver ==
    /\ phase = "responded"
    /\ phase' = "idle"
    /\ req' = NoRequest
    /\ calls' = <<>>
    /\ lists' = <<>>
    /\ replies' = <<>>
    /\ order' = <<>>
    /\ caught' = NoCatch
    /\ raised' = ""
    /\ resp' = NoResult
    /\ UNCHANGED authVars

InitRequests ==
    /\ req = NoRequest
    /\ phase = "idle"
    /\ calls = <<>>
    /\ lists = <<>>
    /\ replies = <<>>
    /\ order = <<>>
    /\ caught = NoCatch
    /\ raised = ""
    /\ resp = NoResult

\* what TaskListResources.list can get back: an empty page, or a page with
\* a token for the next
FirstPages == {[n |-> 0, token |-> Undefined], [n |-> 1, token |-> "next-lists"]}

\* what a per-list call of an aggregation can get back: a failure or a page
\* of up to MaxItems tasks; for the resource listing, which passes page
\* tokens on, an empty page, a full page, or a full page with one of two
\* tokens for the next
Pages(r) ==
    {[o |-> o, n |-> 0, token |-> Undefined] : o \in PerListFailures}
      \cup (IF r.kind = "list"
            THEN {[o |-> Ok, n |-> 0, token |-> Undefined],
                  [o |-> Ok, n |-> MaxItems, token |-> Undefined],
                  [o |-> Ok, n |-> MaxItems, token |-> "next-a"],
                  [o |-> Ok, n |-> MaxItems, token |-> "next-b"]}
            ELSE {[o |-> Ok, n |-> n, token |-> Undefined] : n \in 0..MaxItems})

----------------------------------------------------------------------------
(***************************************************************************)
(* SpecAuth: the process from its start, with the 'tokens' events and a    *)
(* few requests.                                                           *)
(***************************************************************************)
InitAuth ==
    /\ env \in Environments
    /\ file \in Files
    /\ credentials = NoCredentials
    /\ loaded = NoCredentials
    /\ pc = "constructor"
    /\ source = "none"
    /\ listeners = 0
    /\ tasks = FALSE
    /\ handlers = FALSE
    /\ exitCode = -1
    /\ notified = <<>>
    /\ writes = 0
    /\ lastWrite = "none"
    /\ InitRequests

NextAuth ==
    \/ setupAuth
    \/ setupTokenRefreshHandler
    \/ createTasksClient
    \/ setupHandlers
    \/ run
    \/ \E tokens \in TokenEvents : onTokens(tokens)
    \/ \E o \in {Ok, HttpError(401)} : ToolCall(ToolName("tasklist.", "list"), NoArgs, o, 1)
    \/ \E o \in {Ok, HttpError(401)} : ReadResource(Uri("gtasklists:///", <<"L1">>), o, 0, <<>>, <<>>)
    \/ \E o \in {Ok, HttpError(401)} : ListResources("gtasklists:///", Undefined, o, 1, Undefined)
    \/ Deliver

SpecAuth == InitAuth /\ [][NextAuth]_vars

----------------------------------------------------------------------------
(***************************************************************************)
(* SpecRequests: a server that has started with the credentials of its     *)
(* file, and every request of the model.                                   *)
(***************************************************************************)
StartedCredentials ==
    [access_token |-> "file-access", refresh_token |-> "file-refresh", expiry_date |-> "t0"]

InitRequestsSpec ==
    /\ env = [ACCESS_TOKEN |-> Undefined, REFRESH_TOKEN |-> Undefined]
    /\ file = JsonFile(StartedCredentials)
    /\ credentials = StartedCredentials
    /\ loaded = StartedCredentials
    /\ pc = "running"
    /\ source = "file"
    /\ listeners = 1
    /\ tasks = TRUE
    /\ handlers = TRUE
    /\ exitCode = -1
    /\ notified = <<>>
    /\ writes = 0
    /\ lastWrite = "none"
    /\ InitRequests

\* a request arrives only while no handler is suspended
NextRequests ==
    \/ phase = "idle" /\ \E name \in ToolNames :
          \E args \in ArgBags(name), o \in Outcomes, n \in 0..MaxItems : ToolCall(name, args, o, n)
    \/ phase = "idle" /\ \E name \in ToolNames :
          \E args \in ArgBags(name) : ToolFanOutBegin(name, args)
    \/ phase = "idle" /\ \E uri \in ReadUris, o \in Outcomes, n \in 0..MaxItems, ls \in Enumerations :
          \E outs \in [1..Len(ls) -> {Ok} \cup GetFailures] : ReadResource(uri, o, n, ls, outs)
    \/ phase = "idle" /\ \E pattern \in ListPatterns, cursor \in Cursors, o \in Outcomes, first \in FirstPages :
          ListResources(pattern, cursor, o, first.n, first.token)
    \/ phase = "idle" /\ \E pattern \in ListPatterns, cursor \in Cursors, o \in Outcomes, first \in FirstPages :
          ListFanOutBegin(pattern, cursor, o, first.n, first.token)
    \/ phase = "enumerating" /\ \E o \in Outcomes, ls \in Enumerations : EnumerationDone(o, ls)
    \/ phase = "fanout" /\ \E i \in DOMAIN replies : \E page \in Pages(req) :
          PerListDone(i, page.o, page.n, page.token)
    \/ Join
    \/ Deliver

SpecRequests == InitRequestsSpec /\ [][NextRequests]_vars

----------------------------------------------------------------------------
(***************************************************************************)
(* SpecFanOut: task.list requests without a taskListId, on a gateway that  *)
(* answers every call it was sent.  The event loop runs a continuation     *)
(* whose promise has settled, so the handler's steps after an answer are   *)
(* taken as soon as they can be.                                           *)
(***************************************************************************)
NextFanOut ==
    \/ ToolFanOutBegin(ToolName("task.", "list"), NoArgs)
    \/ phase = "enumerating" /\ \E o \in Outcomes, ls \in Enumerations : EnumerationDone(o, ls)
    \/ phase = "fanout" /\ \E i \in DOMAIN replies : \E page \in Pages(req) :
          PerListDone(i, page.o, page.n, page.token)
    \/ Join
    \/ Deliver

\* every issued call is answered, and the handler resumes once Promise.all
\* has settled
FairFanOut ==
    /\ WF_vars(phase = "enumerating" /\ \E o \in Outcomes, ls \in Enumerations : EnumerationDone(o, ls))
    /\ WF_vars(phase = "fanout" /\ \E i \in DOMAIN replies : \E page \in Pages(req) :
                  PerListDone(i, page.o, page.n, page.token))
    /\ WF_vars(Join)

SpecFanOut == InitRequestsSpec /\ [][NextFanOut]_vars /\ FairFanOut

----------------------------------------------------------------------------
(***************************************************************************)
(* Properties of the request handlers, checked under SpecRequests.         *)
(***************************************************************************)

\* task.list without a taskListId whose enumeration succeeded, answered
C1_Answered ==
    /\ phase = "responded"
    /\ req.kind = "tool"
    /\ Route(req.name) = "TaskActions.list"
    /\ ~Truthy(req.args.taskListId)
    /\ caught = NoCatch

\* the items of the lists that answered, from enumeration position i on
RECURSIVE C1_ItemsFrom(_)
C1_ItemsFrom(i) ==
    IF i > Len(lists) THEN <<>>
    ELSE (IF replies[i].state = "ok" THEN replies[i].items ELSE <<>>) \o C1_ItemsFrom(i + 1)

\* C1: task.list without a taskListId, the enumeration having succeeded,
\* answers success with exactly the items of the lists whose call
\* succeeded, concatenated in enumeration order whatever the order in
\* which the calls completed, and a count equal to their number.
C1_AggregatesSucceedingListsInOrder ==
    C1_Answered =>
        /\ resp.status = "success"
        /\ resp.tasks = serializeTasks(C1_ItemsFrom(1))
        /\ resp.count = Len(C1_ItemsFrom(1))

\* three lists, one failed, and two that returned tasks completed in the
\* reverse of their enumeration order
C1_Witness ==
    /\ C1_Answered
    /\ Len(lists) >= 3
    /\ \E i \in DOMAIN replies : replies[i].state = "failed"
    /\ \E a, b \in DOMAIN order :
          /\ a < b
          /\ order[a] > order[b]
          /\ replies[order[a]].state = "ok" /\ replies[order[a]].items # <<>>
          /\ replies[order[b]].state = "ok" /\ replies[order[b]].items # <<>>
    /\ resp.count = Len(resp.tasks)
    /\ resp.count >= 2

\* the arguments a tool operation requires
C2_Required(name) ==
    IF name.prefix = "tasklist."
    THEN CASE name.op \in {"get", "delete"} -> {"id"}
           [] name.op = "create" -> {"title"}
           [] name.op = "update" -> {"id", "title"}
           [] OTHER -> {}
    ELSE IF name.prefix = "task."
         THEN CASE name.op \in {"get", "update", "delete", "move"} -> {"id"}
                [] name.op = "create" -> {"title"}
                [] name.op = "search" -> {"query"}
                [] OTHER -> {}
         ELSE {}

\* the argument is missing or is the empty string
C2_Absent(args, key) ==
    IF key \in {"title", "query"} THEN args[key] \in {NoText, <<>>}
    ELSE args[key] \in {Undefined, ""}

\* C2: a tool operation called with a required argument missing or empty
\* is rejected with InvalidParams, and no gateway call is made.
C2_MissingArgumentRejectedBeforeAnyCall ==
    (/\ phase = "responded"
     /\ req.kind = "tool"
     /\ \E key \in C2_Required(req.name) : C2_Absent(req.args, key))
    => /\ resp.status = "error"
       /\ resp.mcp
       /\ resp.code = "InvalidParams"
       /\ calls = <<>>

\* tasklist.update with an id and an empty title, rejected
C2_Witness ==
    /\ phase = "responded"
    /\ req.kind = "tool"
    /\ req.name = ToolName("tasklist.", "update")
    /\ req.args.id = "T11"
    /\ req.args.title = <<>>
    /\ resp.code = "InvalidParams"
    /\ calls = <<>>

\* C3: a tool operation whose gateway call fails with 404, 401 or 403
\* reports InvalidRequest to the caller, never InternalError.
C3_NotFoundAndAuthReportedAsInvalidRequest ==
    (/\ phase = "responded"
     /\ req.kind = "tool"
     /\ resp.status = "error"
     /\ caught.error.response
     /\ caught.error.status \in {401, 403, 404})
    => resp.code = "InvalidRequest"

\* the call sites of handleApiError
C4_Sites ==
    {"TaskListResources.list", "TaskListResources.read", "TaskResources.read (list given)",
     "TaskResources.read (all lists)", "TaskResources.list", "TaskActions.create"}

\* the code for a failure, given what the remaining failures become
C4_Code(error, fallback) ==
    IF error.response /\ error.status = 400 THEN "InvalidParams"
    ELSE IF error.response /\ error.status \in {401, 403, 404} THEN "InvalidRequest"
    ELSE fallback

\* the errorCode argument at each call site
C4_Fallback(site) ==
    IF site \in {"TaskListResources.read", "TaskResources.read (list given)"}
    THEN "InvalidRequest" ELSE "InternalError"

C5_TypedErrorsKeepTheirCode ==
    (phase = "responded" /\ raised # "")
    => /\ resp.status = "error"
       /\ resp.mcp
       /\ resp.code = raised

\* C6: task.list without a taskListId whose enumeration of the task lists
\* fails answers with an InternalError.
C6_FailedEnumerationIsInternalError ==
    (/\ phase = "responded"
     /\ req.kind = "tool"
     /\ Route(req.name) = "TaskActions.list"
     /\ ~Truthy(req.args.taskListId)
     /\ caught.site = "TaskActions._list")
    => /\ resp.status = "error"
       /\ resp.code = "InternalError"

----------------------------------------------------------------------------
(***************************************************************************)
(* Properties of startup and of the 'tokens' callback, checked under       *)
(* SpecAuth.                                                               *)
(***************************************************************************)

\* the left-to-right merge of c with the events: a key an event carries
\* overrides, a key it lacks is retained
RECURSIVE C7_Merge(_, _)
C7_Merge(c, events) ==
    IF events = <<>> THEN c
    ELSE C7_Merge([k \in DOMAIN c |-> IF Head(events)[k] # Undefined THEN Head(events)[k] ELSE c[k]],
                  Tail(events))

\* every notification so far carried an access_token
C7_AllCarryAccessToken == \A i \in DOMAIN notified : Truthy(notified[i].access_token)

\* this step delivers a notification with a new access_token and no
\* refresh_token
C7_AccessOnlyStep ==
    /\ Len(notified') = Len(notified) + 1
    /\ Truthy(notified'[Len(notified')].access_token)
    /\ notified'[Len(notified')].refresh_token = Undefined

C8_EnvironmentCredentialsNeverWritten ==
    writes > 0 => source = "file"

\* setupAuth has run and no notification has come since
C9_JustLoaded == pc # "constructor" /\ notified = <<>>

\* the credentials made of the two environment variables
C9_FromEnvironment ==
    [access_token |-> env.ACCESS_TOKEN, refresh_token |-> env.REFRESH_TOKEN,
     expiry_date |-> Undefined]

\* C9 as stated: the credentials come from the environment exactly when
\* both the access token and the refresh token are set there, and from
\* the credentials file in every other case.
C9_EnvironmentIffBothTokens ==
    (C9_JustLoaded /\ pc # "exited") =>
        IF Truthy(env.ACCESS_TOKEN) /\ Truthy(env.REFRESH_TOKEN)
        THEN credentials = C9_FromEnvironment
        ELSE file.parsable /\ credentials = file.content

\* C9: the credentials come from the environment exactly when the refresh
\* token is set there, the access token being set or not and the
\* credentials file existing or not; in every other case the file is the
\* one source, and startup ends in exit when it is absent or does not
\* parse.
C9_EnvironmentIffRefreshToken ==
    C9_JustLoaded =>
        IF Truthy(env.REFRESH_TOKEN)
        THEN pc # "exited" /\ credentials = C9_FromEnvironment
        ELSE IF file.exists /\ file.parsable
             THEN pc # "exited" /\ credentials = file.content
             ELSE pc = "exited"

\* REFRESH_TOKEN alone is set and a credentials file with other tokens
\* exists: the environment is used
C9_Witness ==
    /\ pc = "credentialsSet"
    /\ notified = <<>>
    /\ ~Truthy(env.ACCESS_TOKEN)
    /\ env.REFRESH_TOKEN = "env-refresh"
    /\ file.parsable
    /\ credentials.refresh_token = "env-refresh"
    /\ credentials # file.content

\* no credentials at startup: the environment gives no refresh token and
\* the file is absent or does not parse (the file is as it was at startup
\* as long as nothing was written)
C10_NoCredentials ==
    /\ writes = 0
    /\ ~Truthy(env.REFRESH_TOKEN)
    /\ ~file.exists \/ ~file.parsable

\* C10: with credentials in neither source, or a credentials file that
\* does not parse, the process ends with a non-zero status before the
\* refresh listener is registered, the gateway client is created or a
\* request handler is installed, and it serves no request.
C10_ExitsBeforeAnythingIsSetUp ==
    C10_NoCredentials =>
        /\ pc \in {"constructor", "exited"}
        /\ pc = "exited" => exitCode > 0
        /\ listeners = 0
        /\ ~tasks
        /\ ~handlers
        /\ phase = "idle"
        /\ req = NoRequest
        /\ resp = NoResult

\* a credentials file that is not JSON: the process has exited with 1
C10_Witness ==
    /\ pc = "exited"
    /\ exitCode = 1
    /\ file = GarbageFile
    /\ ~Truthy(env.REFRESH_TOKEN)
    /\ listeners = 0
    /\ ~tasks
    /\ ~handlers

\* setupAuth has gone past its if/else chain and the listener registration
C11_Survived == pc \in {"listening", "clientCreated", "handlersInstalled", "running"}

\* C11: a run that survives startup has exactly one 'tokens' listener; it
\* is registered after the credentials are loaded and before the gateway
\* client exists, hence before any gateway call, and never a second time.
C11_OneListenerBeforeTheGatewayClient ==
    /\ listeners = (IF C11_Survived THEN 1 ELSE 0)
    /\ listeners >= 1 => (source \in {"env", "file"} /\ pc # "constructor")
    /\ (tasks \/ calls # <<>>) => listeners = 1

\* the server has answered a tool call that reached the gateway, with its
\* one listener registered
C11_Witness ==
    /\ pc = "running"
    /\ listeners = 1
    /\ tasks
    /\ phase = "responded"
    /\ calls # <<>>

\* the notifications that carry an access_token
C12_Carrying(events) == SelectSeq(events, LAMBDA t : Truthy(t.access_token))

\* the server runs on the credentials of its file
C12_FileBased == source = "file" /\ pc \notin {"constructor", "exited"}

\* C12 as stated: with file-based credentials every notification carrying
\* an access_token produces one write of the merged credentials within the
\* callback, so that after any sequence of notifications the file equals
\* the live credentials.
C12_FileAlwaysEqualsLive ==
    C12_FileBased =>
        /\ writes = Len(C12_Carrying(notified))
        /\ credentials = C7_Merge(loaded, C12_Carrying(notified))
        /\ file = JsonFile(credentials)

\* C12: with file-based credentials every notification carrying an
\* access_token makes one attempt to write the merged credentials, in the
\* same step as the live update and in notification order; after an
\* attempt that succeeded the file equals the live credentials, which
\* reflect the most recent such notification, and after one that failed
\* the file is cut short or holds the credentials of an earlier moment.
C12_OneWritePerRefreshInOrder ==
    C12_FileBased =>
        /\ writes = Len(C12_Carrying(notified))
        /\ credentials = C7_Merge(loaded, C12_Carrying(notified))
        /\ lastWrite # "failed" => file = JsonFile(credentials)
        /\ lastWrite = "failed" =>
              \/ file = GarbageFile
              \/ \E k \in 0..Len(notified) :
                    file = JsonFile(C7_Merge(loaded, C12_Carrying(SubSeq(notified, 1, k))))

\* two refreshes, both written: the file holds the live credentials with
\* the second access_token
C12_Witness ==
    /\ C12_FileBased
    /\ Len(notified) = 2
    /\ notified[1].access_token = "a1"
    /\ notified[2].access_token = "a2"
    /\ writes = 2
    /\ lastWrite = "ok"
    /\ file = JsonFile(credentials)
    /\ credentials.access_token = "a2"

\* C13: the live credentials and the credentials file change only in the
\* initial load and in the 'tokens' callback; no step of a tool call, a
\* resource read or a resource listing changes them, whether the request
\* succeeds or fails.
C13_OnlyLoadAndRefreshChangeCredentials ==
    /\ [][(credentials' # credentials \/ file' # file) =>
            (pc = "constructor" \/ Len(notified') = Len(notified) + 1)]_vars
    /\ [][(req' # req \/ phase' # phase \/ resp' # resp \/ calls' # calls) =>
            (credentials' = credentials /\ file' = file)]_vars

\* a tool call refused by the gateway has been answered after a refresh:
\* the live credentials are still those of the refresh
C13_Witness ==
    /\ phase = "responded"
    /\ req.kind = "tool"
    /\ resp.status = "error"
    /\ caught.error = HttpError(401)
    /\ Len(notified) = 1
    /\ Truthy(notified[1].access_token)
    /\ credentials = C7_Merge(loaded, notified)
    /\ credentials # loaded

----------------------------------------------------------------------------
(***************************************************************************)
(* Properties of single operations, checked under SpecRequests.            *)
(***************************************************************************)

\* a tool request routed to one method has been answered
C14_Answered(method) ==
    /\ phase = "responded"
    /\ req.kind = "tool"
    /\ Route(req.name) = method

\* C14: task.list with a taskListId issues exactly one tasks.list call, on
\* that list, and no call that enumerates the task lists; when the call
\* succeeds the count reported equals the number of items the gateway
\* returned for the list.
C14_ScopedListIsOneCallWithExactCount ==
    (C14_Answered("TaskActions.list") /\ Truthy(req.args.taskListId)) =>
        /\ Len(calls) = 1
        /\ calls[1].api = "tasks.list"
        /\ calls[1].tasklist = req.args.taskListId
        /\ \A i \in DOMAIN calls : calls[i].api # "tasklists.list"
        /\ replies[1].state = "ok" =>
              /\ resp.status = "success"
              /\ resp.count = Len(replies[1].items)
              /\ Len(resp.tasks) = Len(replies[1].items)

\* task.list on L1 answered with the two tasks the gateway returned
C14_Witness ==
    /\ C14_Answered("TaskActions.list")
    /\ req.args.taskListId = "L1"
    /\ replies[1].state = "ok"
    /\ Len(replies[1].items) = MaxItems
    /\ resp.count = MaxItems
    /\ Len(calls) = 1

\* task.list or task.search with a taskListId (and a query) whose one
\* call failed
C15_ScopedCallFailed ==
    /\ phase = "responded"
    /\ req.kind = "tool"
    /\ Route(req.name) \in {"TaskActions.list", "TaskActions.search"}
    /\ Route(req.name) = "TaskActions.search" => TruthyText(req.args.query)
    /\ Truthy(req.args.taskListId)
    /\ Len(calls) = 1
    /\ replies = <<Rejected>>

\* C15: task.list or task.search with a taskListId whose tasks.list call
\* fails, with any status or exception, raises nothing: the caller gets a
\* success response reporting zero tasks.
C15_ScopedFailureIsAnEmptySuccess ==
    C15_ScopedCallFailed =>
        /\ raised = ""
        /\ resp.status = "success"
        /\ resp.count = 0
        /\ resp.tasks = <<>>

\* task.search on L1 whose call failed without an HTTP response
C15_Witness ==
    /\ C15_ScopedCallFailed
    /\ Route(req.name) = "TaskActions.search"
    /\ caught.error = NetworkError
    /\ resp.status = "success"
    /\ resp.count = 0

\* the sequence task.list would return for the same taskListId and the
\* same answers of the gateway
C16_Aggregated ==
    IF Truthy(req.args.taskListId)
    THEN IF replies # <<>> /\ replies[1].state = "ok" THEN replies[1].items ELSE <<>>
    ELSE C1_ItemsFrom(1)

\* letters compared without regard to case
C16_Fold(c) == IF c = "A" THEN "a" ELSE IF c = "B" THEN "b" ELSE c

\* text contains q as a substring, case-insensitively
C16_Contains(text, q) ==
    /\ text # NoText
    /\ \E from \in 1..(Len(text) - Len(q) + 1) :
          \A j \in 1..Len(q) : C16_Fold(text[from + j - 1]) = C16_Fold(q[j])

\* the tasks of the aggregated sequence that match the query
C16_Matching ==
    SelectSeq(C16_Aggregated,
              LAMBDA t : C16_Contains(t.title, req.args.query) \/ C16_Contains(t.notes, req.args.query))

\* C16: for a non-empty query, task.search returns exactly the tasks of
\* the aggregated sequence whose title or notes contains the query as a
\* substring, case-insensitively, in their order, and the count reported is
\* the number of matches.
C16_SearchReturnsExactlyTheMatches ==
    (C14_Answered("TaskActions.search") /\ TruthyText(req.args.query)) =>
        /\ resp.status = "success"
        /\ resp.tasks = serializeTasks(C16_Matching)
        /\ resp.count = Len(C16_Matching)

\* a query in capitals that some tasks match only when case is ignored,
\* and others do not match
C16_Witness ==
    /\ C14_Answered("TaskActions.search")
    /\ req.args.query = <<"A", "B">>
    /\ Len(C16_Aggregated) >= 2
    /\ resp.count >= 1
    /\ resp.count < Len(C16_Aggregated)
    /\ resp.tasks[1].title = <<"A", "b">>

\* no field of the task is absent
C17_EveryFieldPresent(t) ==
    /\ t.title # NoText
    /\ t.notes # NoText
    /\ \A k \in {"id", "status", "due", "completed", "parent", "position", "updated",
                 "hidden", "deleted", "etag", "selfLink", "links"} : t[k] # Undefined

\* C17: every task delivered by a tool operation or a resource read has
\* every optional field present: no field the gateway omitted is absent
\* from what the caller receives.
C17_DeliveredTasksAreNormalized ==
    (phase = "responded" /\ req.kind \in {"tool", "read"} /\ resp.status = "success") =>
        \A i \in DOMAIN resp.tasks : C17_EveryFieldPresent(resp.tasks[i])

\* the methods that return data, and those that only act
C18_DataReturning ==
    {"TaskListActions.list", "TaskListActions.get", "TaskListActions.create", "TaskListActions.update",
     "TaskActions.list", "TaskActions.get", "TaskActions.create", "TaskActions.update",
     "TaskActions.search"}

C18_SideEffectOnly ==
    {"TaskListActions.delete", "TaskActions.delete", "TaskActions.clear", "TaskActions.move"}

\* C18: every successful tool operation answers with a summary text; the
\* structured payload is present for the data-returning operations and
\* absent for delete, clear and move.
C18_SummaryAlwaysPayloadForData ==
    (phase = "responded" /\ req.kind = "tool" /\ resp.status = "success") =>
        /\ resp.text
        /\ Route(req.name) \in C18_DataReturning \cup C18_SideEffectOnly
        /\ resp.resource <=> Route(req.name) \in C18_DataReturning

\* task.delete has succeeded: a summary and no payload
C18_Witness ==
    /\ C14_Answered("TaskActions.delete")
    /\ req.name.prefix = "task."
    /\ resp.status = "success"
    /\ resp.text
    /\ ~resp.resource

\* the optional fields of a task.create request
C19_Optional == {"notes", "due", "status", "parent"}

\* task.create with a title has been answered
C19_Created == C14_Answered("TaskActions.create") /\ TruthyText(req.args.title)

\* one insert call, on the given list, with the title and no taskListId
\* in its body
C19_OneInsert ==
    /\ Len(calls) = 1
    /\ calls[1].api = "tasks.insert"
    /\ Truthy(req.args.taskListId) => calls[1].tasklist = req.args.taskListId
    /\ calls[1].body.title = req.args.title
    /\ calls[1].body.taskListId = Undefined
    /\ calls[1].body.previous = Undefined

\* the argument was supplied with a value that is not the empty string
C19_NonEmpty(args, k) ==
    IF k = "notes" THEN args[k] \notin {NoText, <<>>} ELSE args[k] \notin {Undefined, ""}

\* C19 as stated: task.create issues one insert call whose body holds the
\* title and exactly the optional fields the request supplied.
C19_BodyHoldsWhatWasSupplied ==
    C19_Created =>
        /\ C19_OneInsert
        /\ \A k \in C19_Optional : calls[1].body[k] = req.args[k]

\* C19: task.create issues one insert call, on the given list, whose body
\* holds the title and exactly the optional fields the request supplied
\* with a non-empty value; a field not supplied, or supplied as the empty
\* string, is not in the body, and neither is taskListId.
C19_BodyHoldsTheNonEmptyFields ==
    C19_Created =>
        /\ C19_OneInsert
        /\ \A k \in C19_Optional :
              calls[1].body[k] = IF C19_NonEmpty(req.args, k) THEN req.args[k] ELSE NoBody[k]

\* a request with notes, an empty parent and no due date on list L1: the
\* body has the notes and neither of the other two
C19_Witness ==
    /\ C19_Created
    /\ req.args.taskListId = "L1"
    /\ req.args.notes = <<"b">>
    /\ req.args.parent = ""
    /\ req.args.due = Undefined
    /\ calls[1].tasklist = "L1"
    /\ calls[1].body.notes = <<"b">>
    /\ calls[1].body.parent = Undefined
    /\ calls[1].body.due = Undefined

\* C20: task.update with an id issues one patch call whose body holds
\* exactly the fields among title, notes, status, due and parent that are
\* in the argument bag, each with the value supplied, an empty string
\* included, and no other field.
C20_PatchHoldsWhatIsInTheBag ==
    (C14_Answered("TaskActions.update") /\ Truthy(req.args.id)) =>
        /\ Len(calls) = 1
        /\ calls[1].api = "tasks.patch"
        /\ \A k \in {"title", "notes", "status", "due", "parent"} : calls[1].body[k] = req.args[k]
        /\ calls[1].body.previous = Undefined
        /\ calls[1].body.taskListId = Undefined

----------------------------------------------------------------------------
(***************************************************************************)
(* Properties of the calls a request issues, checked under SpecRequests.   *)
(***************************************************************************)

\* the gateway call each single-call method is to issue
C21_Kind(method) ==
    CASE method = "TaskListActions.list" -> "tasklists.list"
      [] method = "TaskListActions.get" -> "tasklists.get"
      [] method = "TaskListActions.create" -> "tasklists.insert"
      [] method = "TaskListActions.update" -> "tasklists.update"
      [] method = "TaskListActions.delete" -> "tasklists.delete"
      [] method = "TaskActions.get" -> "tasks.get"
      [] method = "TaskActions.create" -> "tasks.insert"
      [] method = "TaskActions.update" -> "tasks.patch"
      [] method = "TaskActions.delete" -> "tasks.delete"
      [] method = "TaskActions.move" -> "tasks.move"
      [] method = "TaskActions.clear" -> "tasks.clear"
      [] OTHER -> "none"

\* the arguments each of these methods requires are there
C21_Validated(method, args) ==
    /\ method \in {"TaskListActions.get", "TaskListActions.update", "TaskListActions.delete",
                   "TaskActions.get", "TaskActions.update", "TaskActions.delete",
                   "TaskActions.move"} => args.id \notin {Undefined, ""}
    /\ method \in {"TaskListActions.create", "TaskListActions.update", "TaskActions.create"}
          => args.title \notin {NoText, <<>>}

\* C21: every tasklist operation and each of task.get, create, update,
\* delete, move and clear, its required arguments validated, issues exactly
\* one gateway call of the kind of the operation, whether the call succeeds
\* or fails; a task operation's call is on the taskListId supplied, or on
\* '@default' when none is.
C21_OneCallOfTheMatchingKind ==
    (/\ phase = "responded"
     /\ req.kind = "tool"
     /\ C21_Kind(Route(req.name)) # "none"
     /\ C21_Validated(Route(req.name), req.args))
    => /\ Len(calls) = 1
       /\ calls[1].api = C21_Kind(Route(req.name))
       /\ calls[1].api \in {"tasks.get", "tasks.insert", "tasks.patch", "tasks.delete",
                            "tasks.move", "tasks.clear"}
             => calls[1].tasklist = IF req.args.taskListId = Undefined THEN "@default"
                                    ELSE req.args.taskListId

\* task.move without a taskListId whose call failed: one tasks.move call on
\* '@default'
C21_Witness ==
    /\ phase = "responded"
    /\ req.kind = "tool"
    /\ req.name = ToolName("task.", "move")
    /\ req.args.taskListId = Undefined
    /\ caught.error = HttpError(500)
    /\ Len(calls) = 1
    /\ calls[1].api = "tasks.move"
    /\ calls[1].tasklist = "@default"
    /\ calls[1].task = req.args.id

\* the name is one of the operations the handler knows
C22_Known(name) ==
    \/ name.prefix = "tasklist." /\ name.op \in {"list", "get", "create", "update", "delete"}
    \/ name.prefix = "task." /\ name.op \in {"search", "list", "get", "create", "update", "move",
                                             "delete", "clear"}
    \/ name.prefix = "" /\ name.op \in {"search", "list", "create", "update", "delete", "clear"}

\* C22: a tool call, whatever its name, arguments and the gateway's
\* answer, ends in a success response or in a McpError with an error code,
\* MethodNotFound (and no gateway call) for a name that is no operation;
\* no other exception leaves the handler.
C22_ToolCallsEndInSuccessOrTypedError ==
    (phase = "responded" /\ req.kind = "tool") =>
        /\ \/ resp.status = "success"
           \/ resp.status = "error" /\ resp.mcp /\ resp.code \in ErrorCodes
        /\ ~C22_Known(req.name) =>
              (resp.status = "error" /\ resp.code = "MethodNotFound" /\ calls = <<>>)
        /\ (resp.status = "error" /\ resp.code = "MethodNotFound") => ~C22_Known(req.name)

\* the un-prefixed name "get", which only the task. switch knows
C22_Witness ==
    /\ phase = "responded"
    /\ req.kind = "tool"
    /\ req.name = ToolName("", "get")
    /\ resp.status = "error"
    /\ resp.mcp
    /\ resp.code = "MethodNotFound"

\* a read of gtasks:///{list}/tasks/{task} has been answered
C23_CompoundRead ==
    /\ phase = "responded"
    /\ req.kind = "read"
    /\ req.uri.scheme = "gtasks:///"
    /\ Len(req.uri.rest) = 3
    /\ req.uri.rest[2] = "tasks"

\* C23: reading gtasks:///{L}/tasks/{T} issues exactly one tasks.get call,
\* with tasklist L and task T, and no call that enumerates the task lists;
\* when the call fails the read ends in a McpError and no other list is
\* searched.
C23_CompoundReadIsOneGet ==
    C23_CompoundRead =>
        /\ Len(calls) = 1
        /\ calls[1].api = "tasks.get"
        /\ calls[1].tasklist = req.uri.rest[1]
        /\ calls[1].task = req.uri.rest[3]
        /\ caught # NoCatch => (resp.status = "error" /\ resp.mcp /\ resp.code \in ErrorCodes)
        /\ caught = NoCatch => resp.status = "success"

\* the one call failed with 404: an error after that single call
C23_Witness ==
    /\ C23_CompoundRead
    /\ caught.error = HttpError(404)
    /\ Len(calls) = 1
    /\ resp.status = "error"
    /\ resp.code = "InvalidRequest"

\* task.list or task.search (with a query) without a taskListId
C24_OmittedScope ==
    /\ req.kind = "tool"
    /\ Route(req.name) \in {"TaskActions.list", "TaskActions.search"}
    /\ Route(req.name) = "TaskActions.search" => req.args.query \notin {NoText, <<>>}
    /\ req.args.taskListId = Undefined

\* the calls of one kind on one list
C24_Calls(api, tasklist) ==
    {k \in DOMAIN calls : calls[k].api = api /\ calls[k].tasklist = tasklist}

\* C24: task.list or task.search without a taskListId issues one call
\* that enumerates the task lists, then one tasks.list call for each
\* enumerated list with an id and none for a list without; a failed call is
\* not retried and keeps no sibling from being issued; when no list has an
\* id no tasks.list call is issued and the result is empty.
C24_OneEnumerationOneCallPerList ==
    (C24_OmittedScope /\ phase # "idle") =>
        /\ Cardinality({k \in DOMAIN calls : calls[k].api = "tasklists.list"}) = 1
        /\ \A i \in DOMAIN lists :
              Cardinality(C24_Calls("tasks.list", lists[i])) = IF lists[i] = Undefined THEN 0 ELSE 1
        /\ Len(calls) = 1 + Cardinality({i \in DOMAIN lists : lists[i] # Undefined})
        /\ (phase = "responded" /\ \A i \in DOMAIN lists : lists[i] = Undefined) =>
              (Len(calls) = 1 /\ resp.status = "success" /\ resp.count = 0 /\ resp.tasks = <<>>)

\* three lists enumerated, one without an id and one whose call failed:
\* two tasks.list calls were issued, and the other list's tasks came back
C24_Witness ==
    /\ C24_OmittedScope
    /\ phase = "responded"
    /\ Len(lists) = 3
    /\ \E i \in DOMAIN lists : lists[i] = Undefined
    /\ \E i \in DOMAIN replies : replies[i].state = "failed"
    /\ Len(calls) = 3
    /\ resp.count >= 1

----------------------------------------------------------------------------
(***************************************************************************)
(* Properties of the fan-out, checked under SpecFanOut.                    *)
(***************************************************************************)

\* every list with an id has had its call issued
C25_AllIssued ==
    /\ Len(calls) = 1 + Cardinality({i \in DOMAIN lists : lists[i] # Undefined})
    /\ \A i \in DOMAIN lists : lists[i] # Undefined => replies[i].state # "unissued"

\* C25: in the fan-out of task.list without a taskListId every per-list
\* call is issued before any of them completes (no call is issued once the
\* handler waits), and the response is produced only after every per-list
\* call has resolved or rejected; when every issued call is answered, the
\* request that was begun is responded to.
C25_AllIssuedThenJoinedThenAnswered ==
    /\ [](phase = "fanout" => C25_AllIssued)
    /\ [][phase = "fanout" => calls' = calls \/ phase' = "idle"]_vars
    /\ []((phase = "responded" /\ lists # <<>>) =>
             (C25_AllIssued /\ \A i \in DOMAIN replies : replies[i].state # "pending"))
    /\ [][phase' = "responded" /\ phase = "fanout" =>
             \A i \in DOMAIN replies : replies[i].state \in {"unissued", "ok", "failed"}]_vars
    /\ (phase \in {"enumerating", "fanout"}) ~> (phase = "responded")

\* three calls answered out of their order, the second with a failure, and
\* the response made after the last
C25_Witness ==
    /\ phase = "responded"
    /\ req.name = ToolName("task.", "list")
    /\ Len(lists) = 3
    /\ order = <<3, 2, 1>>
    /\ replies[2].state = "failed"
    /\ replies[1].state = "ok"
    /\ replies[3].state = "ok"
    /\ Len(calls) = 4
    /\ resp.status = "success"

----------------------------------------------------------------------------
(***************************************************************************)
(* Properties of the resource handlers, checked under SpecRequests.        *)
(***************************************************************************)

\* a resource listing whose TaskResources.list has enumerated the lists and
\* returned, the handler having no token of the task lists to prefer
C26_Aggregated ==
    /\ phase = "responded"
    /\ req.kind = "list"
    /\ caught = NoCatch
    /\ \E k \in DOMAIN calls : calls[k].maxResults = MAX_TASKLIST_RESULTS
    /\ ~Truthy(req.locals.cursor)

\* the greatest of a set of enumeration indexes
C26_Last(S) == CHOOSE i \in S : \A j \in S : j <= i

\* the lists whose call succeeded, and those of them that reported a token
C26_Succeeded == {i \in DOMAIN replies : replies[i].state = "ok"}

C26_WithToken == {i \in C26_Succeeded : replies[i].token # Undefined}

\* C26 as stated: the cursor is what the last list whose call succeeded
\* reported, null when that list reported no token.
C26_CursorOfTheLastSuccessfulList ==
    C26_Aggregated =>
        resp.cursor = IF C26_Succeeded = {} THEN Null
                      ELSE OrElse(replies[C26_Last(C26_Succeeded)].token, Null)

\* C26: the cursor TaskResources.list returns is the token of the last
\* list, in enumeration order, whose call succeeded and reported a token,
\* null when no successful list reported one; it is never taken from a
\* failed call, and a failed per-list call does not fail the listing.
C26_CursorOfTheLastSuccessfulListWithAToken ==
    C26_Aggregated =>
        /\ resp.status = "success"
        /\ resp.cursor = IF C26_WithToken = {} THEN Null
                         ELSE replies[C26_Last(C26_WithToken)].token
        /\ \A i \in DOMAIN replies : replies[i].state = "failed" => replies[i].token = Undefined

\* the first list reported a token, the second answered last and reported
\* none, the third failed: the cursor is the first list's token
C26_Witness ==
    /\ C26_Aggregated
    /\ Len(lists) = 3
    /\ replies[1].state = "ok" /\ replies[1].token = "next-a"
    /\ replies[2].state = "ok" /\ replies[2].token = Undefined
    /\ replies[3].state = "failed"
    /\ order = <<1, 3, 2>>
    /\ resp.status = "success"
    /\ resp.cursor = "next-a"

\* task.list or task.search (with a query) without a taskListId, answered
C27_Answered ==
    /\ phase = "responded"
    /\ req.kind = "tool"
    /\ FansOut(req.name, req.args)

\* what the enumeration call of the answered request got: _list notes a
\* failure of it, and of no other call of the fan-out
C27_Enumeration == IF caught = NoCatch THEN Ok ELSE caught.error

\* the sequential _list on the lists and the per-list answers of the
\* answered request
C27_Sequential == TaskActions__list_sequential(C27_Enumeration, lists, replies)

\* C27: whatever lists are enumerated, with or without an id, and whatever
\* each per-list call answers, when the enumeration call succeeds the
\* concurrent _list returns the task sequence the sequential _list of the
\* alternate version returns; when the enumeration call fails the two
\* differ: the concurrent one returns no task, the sequential one raises.
C27_ConcurrentEqualsSequential ==
    C27_Answered =>
        /\ C27_Enumeration.ok =>
              /\ ~C27_Sequential.raised
              /\ resp = Aggregated(req, C27_Sequential.allTasks, Null)
        /\ ~C27_Enumeration.ok =>
              /\ C27_Sequential.raised
              /\ resp = Aggregated(req, <<>>, Null)
              /\ resp.status = "success"

\* three lists, the calls answered out of their order and the first with a
\* failure: the tasks of the second list, then those of the third
C27_Witness ==
    /\ C27_Answered
    /\ req.name = ToolName("task.", "list")
    /\ Len(lists) = 3
    /\ order = <<3, 1, 2>>
    /\ replies[1].state = "failed"
    /\ Len(replies[2].items) = MaxItems
    /\ Len(replies[3].items) = 1
    /\ resp.tasks = serializeTasks(replies[2].items \o replies[3].items)

\* a read of gtasks:///{task} whose enumeration call succeeded, answered
C28_BareRead ==
    /\ phase = "responded"
    /\ req.kind = "read"
    /\ req.uri.scheme = "gtasks:///"
    /\ Len(req.uri.rest) = 1
    /\ req.uri.rest # <<"default">>
    /\ caught.site # "TaskResources.read (all lists)"

\* the calls after the enumeration, and the enumerated lists with an id in
\* their order
C28_Gets == SubSeq(calls, 2, Len(calls))

C28_Lists == Ascending({i \in DOMAIN lists : lists[i] # Undefined})

\* C28: a read of gtasks:///{T} asks the enumerated lists with an id one
\* after the other in enumeration order, each with one tasks.get for T; it
\* returns the task of the first list whose call succeeds and asks no list
\* after it; when no list yields the task the read fails with
\* InvalidRequest, whatever made the calls fail.
C28_FirstSuccessEndsTheSearch ==
    C28_BareRead =>
        /\ calls[1].api = "tasklists.list"
        /\ Len(C28_Gets) <= Len(C28_Lists)
        /\ \A k \in 1..Len(C28_Gets) :
              /\ C28_Gets[k].api = "tasks.get"
              /\ C28_Gets[k].tasklist = lists[C28_Lists[k]]
              /\ C28_Gets[k].task = req.uri.rest[1]
              /\ k < Len(C28_Gets) => replies[C28_Lists[k]].state = "failed"
        /\ resp.status = "success" <=>
              (C28_Gets # <<>> /\ replies[C28_Lists[Len(C28_Gets)]].state = "ok")
        /\ resp.status # "success" =>
              /\ Len(C28_Gets) = Len(C28_Lists)
              /\ \A k \in 1..Len(C28_Lists) : replies[C28_Lists[k]].state = "failed"
              /\ resp.status = "error" /\ resp.mcp /\ resp.code = "InvalidRequest"
              /\ raised = "InvalidRequest"

\* three lists asked and none held the task, the last call refused for its
\* credentials: InvalidRequest
C28_Witness ==
    /\ C28_BareRead
    /\ Len(lists) = 3
    /\ Len(calls) = 4
    /\ \A i \in 1..3 : replies[i].state = "failed"
    /\ caught = Caught("TaskResources.read (for loop)", HttpError(401))
    /\ resp.status = "error"
    /\ resp.code = "InvalidRequest"

----------------------------------------------------------------------------
(***************************************************************************)
(* Properties of the 'tokens' callback, checked under SpecAuth.            *)
(***************************************************************************)

\* this step delivers a notification without an access_token
C29_StepWithoutAccessToken ==
    /\ Len(notified') = Len(notified) + 1
    /\ ~Truthy(notified'[Len(notified')].access_token)

\* C29: a notification that carries no access_token changes nothing: the
\* live credentials stay as they are and the file is not written, even
\* when the notification carries a refresh_token.
C29_NoAccessTokenChangesNothing ==
    [][C29_StepWithoutAccessToken =>
          /\ credentials' = credentials
          /\ file' = file
          /\ writes' = writes
          /\ lastWrite' = lastWrite]_vars

\* a notification with a refresh_token only has been delivered to a server
\* running on the credentials of its file: nothing has changed
C29_Witness ==
    /\ notified = <<[access_token |-> Undefined, refresh_token |-> "r1", expiry_date |-> Undefined]>>
    /\ source = "file"
    /\ file.exists
    /\ credentials = loaded
    /\ credentials.refresh_token # "r1"
    /\ file = JsonFile(loaded)
    /\ writes = 0

\* this step delivers a notification with an access_token to a server whose
\* credentials file exists
C30_RefreshStep ==
    /\ Len(notified') = Len(notified) + 1
    /\ Truthy(notified'[Len(notified')].access_token)
    /\ file.exists

\* C30: when the write of the file fails during a refresh the failure
\* stays in the callback (the process, its listener and its gateway client
\* are as before), the live credentials keep the merged value, and they
\* differ from the file until a write succeeds; the notifications after a
\* failed write are handled as any other: merged, and written to the file.
C30_FailedWriteIsSwallowed ==
    /\ [](lastWrite = "failed" =>
             /\ pc = "running" /\ exitCode = -1 /\ listeners = 1 /\ tasks
             /\ credentials = C7_Merge(loaded, C12_Carrying(notified)))
    /\ [](lastWrite = "ok" => file = JsonFile(credentials))
    /\ [][C30_RefreshStep =>
             /\ credentials' = C7_Merge(credentials, <<notified'[Len(notified')]>>)
             /\ writes' = writes + 1
             /\ lastWrite' \in {"ok", "failed"}
             /\ lastWrite' = "ok" <=> file' = JsonFile(credentials')
             /\ pc' = pc /\ exitCode' = exitCode /\ listeners' = listeners]_vars

\* the second of two refreshes could not write the file: the live
\* credentials hold both, the file holds the first only
C30_Witness ==
    /\ Len(notified) = 2
    /\ Truthy(notified[1].access_token)
    /\ notified[2].access_token = "a2"
    /\ notified[1].access_token = "a1"
    /\ writes = 2
    /\ lastWrite = "failed"
    /\ file = JsonFile(C7_Merge(loaded, <<notified[1]>>))
    /\ credentials = C7_Merge(loaded, notified)
    /\ file # JsonFile(credentials)
    /\ pc = "running"

============================================================================
